---- MODULE Spec2Model ----
(***************************************************************************)
(* Model of services/download_service.py (DownloadService, DownloadTask)  *)
(* and of the part of services/nsz_service.py its workers call.           *)
(*                                                                         *)
(* Threads.  One caller thread (the UI thread that owns the service) and  *)
(* one worker thread per successful start_download.  The service holds no *)
(* lock, so every access to downloads, active_downloads and the task      *)
(* fields is a separate step of the thread that makes it.  The grain of   *)
(* the model:                                                              *)
(*   - straight-line code between two blocking calls (thread.start(),     *)
(*     requests.get, the read of the next chunk, archive I/O) is one      *)
(*     step;                                                               *)
(*   - "active_downloads += 1" and "active_downloads -= 1" are a read     *)
(*     step and a write step (a load, an add and a store in the byte      *)
(*     code: another thread may run in between);                          *)
(*   - the task objects outlive their registry entry: a worker keeps the  *)
(*     reference it took at line 254.                                     *)
(*                                                                         *)
(* Files.  A file is the sequence of the chunk numbers written to it; the *)
(* server serves the chunks 0 .. ContentLen-1 of every URL and honours    *)
(* Range requests.  Removing a path leaves the open handles of the workers*)
(* on an unlinked file: their later writes do not reach the path.         *)
(***************************************************************************)
EXTENDS Integers, Sequences, FiniteSets, TLC

\* ---------------------------------------------------------------- bounds
NumTasks == 3        \* task ids the caller may submit
NumFiles == 2        \* distinct output paths; task t writes Dest(t)
MaxWorkers == 3      \* worker threads of the largest scenario
SpecWorkers == 2     \* worker threads that may exist in a behaviour of Spec
ContentLen == 2      \* chunks the server holds for every URL
MaxConcurrent == 2   \* the setting max_concurrent_downloads in Spec
MaxLog == 8          \* status events kept when the event log is recorded
MaxCalls == 4        \* calls of the service's methods by the caller thread
RaceCalls == 2       \* calls of start_download in SpecRace
EventCalls == 4      \* calls of the caller thread in SpecEvents
TracedCalls == 3     \* calls of the caller thread in SpecCalls
IdCalls == 5         \* calls of the caller thread in SpecIds
MaxNow == 2          \* seconds the clock may reach in SpecIds
SubmitCalls == 4     \* calls of the caller thread in SpecResubmit
NumListeners == 2    \* callbacks that may be registered on each bus
ListenerCalls == 3   \* calls of the caller thread in SpecListeners
NszCalls == 3        \* calls of the caller thread in SpecNsz
NspCalls == 2        \* calls of the caller thread in SpecNsp
SuffixCalls == 3     \* calls of the caller thread in SpecSuffix
CwdCalls == 2        \* calls of the caller thread in SpecCwd

TaskIds == 1..NumTasks
Files == 1..NumFiles
Workers == 1..MaxWorkers
Listeners == 1..NumListeners

\* DownloadTask.get_output_path: destination/filename.  Tasks t and
\* t + NumFiles were submitted with the same filename and destination (at
\* different seconds, so with different ids).
Dest(t) == ((t - 1) % NumFiles) + 1

NoFile == <<-1>>                         \* os.path.exists(path) is False
Hole == -2                               \* a byte range never written
FullContent == [i \in 1..ContentLen |-> i - 1]

\* The key files: the three paths of default_keys_paths (nsz_service.py
\* lines 24-28), in that order, and a prod.keys file in a directory the
\* user names in the settings.
SwitchKeys == "~/.switch/prod.keys"
DefaultKeysPaths == <<SwitchKeys, "./keys.txt", "./prod.keys">>
KeyPaths == {SwitchKeys, "./keys.txt", "./prod.keys", "/keys/prod.keys"}

\* The content of a key file: "keysA", "keysB" or "garbage", and NoKeys
\* when there is no file at the path.
NoKeys == "absent"

\* What post-processing leaves in the destination directory: the .nsp
\* file named after the .nsz file of path f, an .nsp file of another name
\* (f = 0), and the entries of the archive of path f.
NspFile(f) == <<"nsp", f>>
Entries(f) == <<"entries", f>>

VARIABLES
    pool,                    \* ids the caller has not submitted yet
    downloads,               \* self.downloads: the keys, in insertion order
    status,                  \* task.status
    downloaded_bytes,        \* task.downloaded_bytes (in chunks)
    total_bytes,             \* task.total_bytes (in chunks)
    error_message,           \* task.error_message (its kind)
    active_downloads,        \* self.active_downloads
    max_concurrent_downloads,\* self.max_concurrent_downloads
    download_threads,        \* keys of self.download_threads
    keys_path,               \* nsz_service.keys_path names a key file
    disk,                    \* the output paths: content or NoFile
    nw,                      \* worker threads created so far
    wpc,                     \* position of each worker in _download_worker
    wtask,                   \* task_id argument of each worker
    rpos,                    \* resume_pos of each worker
    spos,                    \* next chunk of the response stream
    linked,                  \* the worker's open handle is the file at the path
    wtmp,                    \* value of active_downloads a thread has loaded
    wtarget,                 \* task_id a worker passes to start_download
    cpc,                     \* position of the caller thread
    ctask,                   \* task_id of the caller's start_download
    ctmp,                    \* active_downloads as loaded by the caller
    citer,                   \* start_all_downloads: index in the iteration
    calls,                   \* calls the caller thread may still make
    wcap,                    \* worker threads that may exist in this behaviour
    log,                     \* the calls of the listeners: event and listener called
    logging,                 \* whether log is recorded in this behaviour
    cancelled,               \* ids for which cancel_download has returned
    interrupted,             \* ids paused at least once by pause_download
    cop,                     \* the caller's call: method and task_id argument
    ret,                     \* value returned by the caller's last call
    retn,                    \* the number or id returned, when ret is "int" or "id"
    pre,                     \* pending tasks and active_downloads when the call began
    started,                 \* start_all_downloads: its local counter
    now,                     \* int(time.time()) as add_download reads it
    tracing,                 \* whether cop and ret are recorded in this behaviour
    status_callbacks,        \* self.status_callbacks: the listeners, in registration order
    progress_callbacks,      \* self.progress_callbacks, in registration order
    raising,                 \* the listeners whose callback raises an exception
    keyfiles,                \* the key files on disk: their content or NoKeys
    outdir,                  \* what post-processing has put into the destination directory
    uppercase,               \* the output paths whose suffix is not written in lower case
    plainfiles,              \* the output paths whose suffix is neither .zip nor .nsz
    cwd,                     \* os.getcwd(): the working directory of the process
    original_cwd,            \* decompress_nsz: the local original_cwd of each worker
    keytext,                 \* the characters of the file given to _validate_keys_file
    valid                    \* what _validate_keys_file has returned for it

taskv == <<status, downloaded_bytes, total_bytes, error_message>>
svcv == <<downloads, active_downloads, max_concurrent_downloads, download_threads, keys_path>>
workv == <<nw, wpc, wtask, rpos, spos, linked, wtmp, wtarget>>
callv == <<cpc, ctask, ctmp, citer>>
obsv == <<cop, ret, retn, pre, started, now, tracing>>
lsnv == <<status_callbacks, progress_callbacks, raising>>
cwdv == <<cwd, original_cwd>>
nszv == <<keyfiles, outdir, uppercase, plainfiles, cwdv, keytext, valid>>
envv == <<pool, calls, wcap, obsv, disk, log, logging, cancelled, interrupted, lsnv, nszv>>
vars == <<taskv, svcv, workv, callv, envv>>

\* ---------------------------------------------------------------- helpers
\* output_path.lower().endswith(...), download_service.py lines 360 and
\* 375: the suffix class of a path, whatever the case of its letters.
Suffix(f) ==
    IF f \in plainfiles THEN "rom"
    ELSE IF f % 3 = 1 THEN "nsz" ELSE IF f % 3 = 2 THEN "zip" ELSE "rom"

InRegistry(t) == \E i \in 1..Len(downloads) : downloads[i] = t

Registry == {downloads[i] : i \in 1..Len(downloads)}

\* del self.downloads[task_id]: the other keys keep their order.
RECURSIVE Without(_, _)
Without(s, t) ==
    IF s = <<>> THEN <<>>
    ELSE IF Head(s) = t THEN Without(Tail(s), t)
    ELSE <<Head(s)>> \o Without(Tail(s), t)

\* lines 60-64 and 68-72: callback(...) is called for each callback of cbs
\* in turn, inside a try statement whose except clause passes.  The result
\* is the sequence of the calls made: the event and the listener called.
\* The loop of lines 68-72 without the try statement: the exception of a
\* callback ends the loop.
RECURSIVE Notify_Unprotected(_, _, _, _)
Notify_Unprotected(cbs, t, kind, msg) ==
    IF cbs = <<>> THEN <<>>
    ELSE IF Head(cbs) \in raising THEN <<(<<t, kind, msg, Head(cbs)>>)>>
    ELSE <<(<<t, kind, msg, Head(cbs)>>)>> \o Notify_Unprotected(Tail(cbs), t, kind, msg)

RECURSIVE Notify(_, _, _, _)
Notify(cbs, t, kind, msg) ==
    IF cbs = <<>> THEN <<>>
    ELSE <<(<<t, kind, msg, Head(cbs)>>)>> \o Notify(Tail(cbs), t, kind, msg)

\* _notify_status(task_id, status, message) (lines 66-72): log grows by
\* the calls of the status callbacks.
Emit(l, t, kind, msg) ==
    IF logging THEN l \o Notify(status_callbacks, t, kind, msg) ELSE l

\* _notify_progress(task_id, task) (lines 58-64), called at line 312 when
\* half a second has passed since the last call (tick).
Progressed(l, t, tick) ==
    IF logging /\ tick THEN l \o Notify(progress_callbacks, t, "progress", "") ELSE l

ProgressRoom == Len(log) + Len(progress_callbacks) <= MaxLog * NumListeners

\* Room in the log for n more events.
LogRoom(n) == ~logging \/ Len(log) + n * Len(status_callbacks) <= MaxLog * Len(status_callbacks)

\* os.path.getsize of an existing file, 0 when it does not exist.
FileSize(f) == IF disk[f] = NoFile THEN 0 ELSE Len(disk[f])

\* A write of chunk c at offset off of a file opened with 'wb'.
WriteAt(data, off, c) ==
    IF off < Len(data) THEN [data EXCEPT ![off + 1] = c]
    ELSE data \o [i \in 1..(off - Len(data)) |-> Hole] \o <<c>>

\* os.remove(path): the path is gone; open handles keep the unlinked file.
Unlinked(f) == [w \in Workers |-> IF Dest(wtask[w]) = f THEN FALSE ELSE linked[w]]

\* Admitted without the test of line 170.
Admitted_NoCapacityTest(t) ==
    /\ InRegistry(t)
    /\ status[t] = "pending"

\* start_download lines 162-171: the three early returns.
Admitted(t) ==
    /\ InRegistry(t)
    /\ status[t] = "pending"
    /\ active_downloads < max_concurrent_downloads

\* threading.Thread(target=self._download_worker, args=(task_id,)).start()
\* pcs: the positions of the threads that exist, the dispatching one moved on.
Dispatch(t, pcs) ==
    /\ nw < wcap
    /\ nw' = nw + 1
    /\ wpc' = [pcs EXCEPT ![nw + 1] = "start"]
    /\ wtask' = [wtask EXCEPT ![nw + 1] = t]

\* NSZService._validate_keys_file (nsz_service.py lines 63-95): the file
\* can be read and one of its lines is a name and a key of 32 hex digits.
validate_keys_file(p) == keyfiles[p] \in {"keysA", "keysB"}

\* NSZService._setup_keys_environment (nsz_service.py lines 21-33): the
\* first of the default paths that exists, or None.
setup_keys_environment ==
    IF \E i \in 1..Len(DefaultKeysPaths) : keyfiles[DefaultKeysPaths[i]] # NoKeys
    THEN DefaultKeysPaths[CHOOSE i \in 1..Len(DefaultKeysPaths) :
                             /\ keyfiles[DefaultKeysPaths[i]] # NoKeys
                             /\ \A j \in 1..(i - 1) : keyfiles[DefaultKeysPaths[j]] = NoKeys]
    ELSE "None"

\* NSZService.is_available (nsz_service.py lines 111-123)
is_available == keys_path # "None" /\ keyfiles[keys_path] # NoKeys

\* _ensure_keys_in_switch_dir, the test of line 108 (nsz_service.py) for the
\* key file kp.
NeedsCopy(kp) == keyfiles[SwitchKeys] = NoKeys /\ kp # SwitchKeys

\* shutil.copy2 of line 109 is asked to copy the file onto itself.
SameFile == keys_path = SwitchKeys

\* _ensure_keys_in_switch_dir, line 109: shutil.copy2(self.keys_path,
\* expected_keys), with self.keys_path as it is when the copy is made.
KeysCopied == [keyfiles EXCEPT ![SwitchKeys] = keyfiles[keys_path]]

\* ---------------------------------------------------------------- initial state
\* The state after DownloadService() and the add_download calls that
\* submitted the ids of queue, in that order; nothing has been started.
InitService(queue) ==
    /\ downloads = queue
    /\ pool = TaskIds \ {queue[i] : i \in 1..Len(queue)}
    /\ status = [t \in TaskIds |-> "pending"]
    /\ downloaded_bytes = [t \in TaskIds |-> 0]
    /\ total_bytes = [t \in TaskIds |-> 0]
    /\ error_message = [t \in TaskIds |-> ""]
    /\ active_downloads = 0
    /\ download_threads = {}
    /\ disk = [f \in Files |-> NoFile]
    /\ nw = 0
    /\ wpc = [w \in Workers |-> "none"]
    /\ wtask = [w \in Workers |-> 1]
    /\ rpos = [w \in Workers |-> 0]
    /\ spos = [w \in Workers |-> 0]
    /\ linked = [w \in Workers |-> FALSE]
    /\ wtmp = [w \in Workers |-> 0]
    /\ wtarget = [w \in Workers |-> 1]
    /\ cpc = "idle"
    /\ ctask = 1
    /\ ctmp = 0
    /\ citer = 0
    /\ log = <<>>
    /\ cancelled = {}
    /\ interrupted = {}
    /\ cop = <<"none", 0>>
    /\ ret = "none"
    /\ retn = 0
    /\ pre = <<0, 0>>
    /\ started = 0
    /\ now = 0

\* The directory the process was started in, and task.destination: the
\* directory of the task's output path.
StartDir == <<"dir", 0>>

Destination(t) == <<"dir", Dest(t)>>

\* The process as it starts: no decompress_nsz call has changed directory
\* and no file has been given to _validate_keys_file.
Launched ==
    /\ cwd = StartDir
    /\ original_cwd = [w \in Workers |-> StartDir]
    /\ keytext = <<>>
    /\ valid = "none"

\* One status listener that does not raise, nothing in the destination
\* directory, file names in lower case.
Plain ==
    /\ status_callbacks = <<1>>
    /\ progress_callbacks = <<>>
    /\ raising = {}
    /\ outdir = {}
    /\ uppercase = {}
    /\ plainfiles = {}
    /\ Launched

\* NSZService.__init__ (nsz_service.py lines 17-19)
NSZService_init == keys_path = setup_keys_environment

\* No key file at any of the paths.
NoKeyFiles ==
    /\ keyfiles = [p \in KeyPaths |-> NoKeys]
    /\ NSZService_init

Init ==
    /\ InitService(<<>>)
    /\ max_concurrent_downloads = MaxConcurrent
    /\ NoKeyFiles
    /\ Plain
    /\ logging = FALSE
    /\ tracing = FALSE
    /\ calls = MaxCalls
    /\ wcap = SpecWorkers

\* ---------------------------------------------------------------- caller
\* The caller thread is between two calls and makes one more.
Call ==
    /\ cpc = "idle"
    /\ calls > 0
    /\ calls' = calls - 1

\* What the call finds: the number of pending tasks and the counter.
Found == <<Cardinality({t \in Registry : status[t] = "pending"}), active_downloads>>

\* The call of method name with argument t begins.
Traced(name, t) ==
    /\ cop' = IF tracing THEN <<name, t>> ELSE cop
    /\ pre' = IF tracing THEN Found ELSE pre
    /\ ret' = IF tracing THEN "none" ELSE ret
    /\ retn' = IF tracing THEN 0 ELSE retn

\* The call of method name with argument t is made and returns v (n: the
\* number, when v is "int" or "id").
Returned(name, t, v, n) ==
    /\ cop' = IF tracing THEN <<name, t>> ELSE cop
    /\ pre' = IF tracing THEN Found ELSE pre
    /\ ret' = IF tracing THEN v ELSE ret
    /\ retn' = IF tracing THEN n ELSE retn

\* add_download (lines 74-97), for a filename and a second that give an id
\* no task of the registry has.
add_download(t) ==
    /\ Call
    /\ Returned("add_download", t, "id", t)
    /\ t \in pool
    /\ \A u \in pool : t <= u          \* ids carry the time of submission
    /\ LogRoom(1)
    /\ pool' = pool \ {t}
    /\ downloads' = Append(downloads, t)
    /\ log' = Emit(log, t, "added", "")
    /\ UNCHANGED <<taskv, active_downloads, max_concurrent_downloads, download_threads,
                   keys_path, workv, callv, wcap, started, now, tracing, disk, logging,
                   cancelled, interrupted,
                   lsnv, nszv>>

\* line 87, f"{filename}_{int(time.time())}": the id made of the filename
\* f and the second sec.  Dest(TaskId(f, sec)) = f.
TaskId(f, sec) == sec * NumFiles + f

\* add_download (lines 86-97) for the filename f at the second the clock
\* shows.  Line 94 is a dict assignment: a key that exists keeps its place
\* and gets the new DownloadTask as its value.
add_download_at(f) ==
    /\ Call
    /\ TaskId(f, now) \in TaskIds
    /\ LogRoom(1)
    /\ Returned("add_download", TaskId(f, now), "id", TaskId(f, now))
    /\ pool' = pool \ {TaskId(f, now)}
    /\ downloads' = IF InRegistry(TaskId(f, now)) THEN downloads
                    ELSE Append(downloads, TaskId(f, now))
    /\ status' = [status EXCEPT ![TaskId(f, now)] = "pending"]
    /\ downloaded_bytes' = [downloaded_bytes EXCEPT ![TaskId(f, now)] = 0]
    /\ total_bytes' = [total_bytes EXCEPT ![TaskId(f, now)] = 0]
    /\ error_message' = [error_message EXCEPT ![TaskId(f, now)] = ""]
    /\ log' = Emit(log, TaskId(f, now), "added", "")
    /\ UNCHANGED <<active_downloads, max_concurrent_downloads, download_threads,
                   keys_path, workv, callv, wcap, started, now, tracing, disk, logging,
                   cancelled, interrupted,
                   lsnv, nszv>>

\* A second of the clock passes.
Tick ==
    /\ now < MaxNow
    /\ now' = now + 1
    /\ UNCHANGED <<taskv, svcv, workv, callv, pool, calls, wcap, cop, ret, retn, pre, started,
                   tracing, disk, log, logging, cancelled, interrupted,
                   lsnv, nszv>>

\* start_download called by the caller, lines 152-171, when none of the
\* three early returns is taken.
start_download(t) ==
    /\ Call
    /\ Admitted(t)
    /\ Traced("start_download", t)
    /\ cpc' = "sd_dispatch"
    /\ ctask' = t
    /\ UNCHANGED <<taskv, svcv, workv, ctmp, citer, started, now, tracing,
                   pool, wcap, disk, log, logging, cancelled, interrupted,
                   lsnv, nszv>>

\* start_download called by the caller, lines 162-171, when one of the early
\* returns is taken.
start_download_refused(t) ==
    /\ Call
    /\ ~Admitted(t)
    /\ Returned("start_download", t, "False", 0)
    /\ UNCHANGED <<taskv, svcv, workv, callv, started, now, tracing,
                   pool, wcap, disk, log, logging, cancelled, interrupted,
                   lsnv, nszv>>

\* start_download lines 174-176: the worker thread is created and started.
caller_dispatch ==
    /\ cpc = "sd_dispatch"
    /\ Dispatch(ctask, wpc)
    /\ cpc' = "sd_read"
    /\ UNCHANGED <<taskv, svcv, rpos, spos, linked, wtmp, wtarget, ctask, ctmp, citer, envv>>

\* start_download lines 178-179: the thread table entry, and the load of
\* active_downloads for "+= 1".
caller_inc_read ==
    /\ cpc = "sd_read"
    /\ download_threads' = download_threads \cup {ctask}
    /\ ctmp' = active_downloads
    /\ cpc' = "sd_write"
    /\ UNCHANGED <<taskv, downloads, active_downloads, max_concurrent_downloads, keys_path,
                   workv, ctask, citer, envv>>

\* start_download line 179 (the store) and line 181; back in
\* start_all_downloads the iteration goes on with the next item.
caller_inc_write ==
    /\ cpc = "sd_write"
    /\ active_downloads' = ctmp + 1
    /\ IF citer > 0
       THEN /\ cpc' = "sa_loop" /\ citer' = citer + 1
            /\ started' = started + 1                       \* line 189
            /\ UNCHANGED <<cop, ret, retn, pre>>
       ELSE /\ cpc' = "idle" /\ citer' = citer
            /\ UNCHANGED <<cop, retn, pre, started>>
            /\ ret' = IF ~tracing THEN ret                  \* line 206: no value
                      ELSE IF cop[1] = "resume_download" THEN "None" ELSE "True"
    /\ ctask' = 1 /\ ctmp' = 0          \* locals of the call that returned
    /\ UNCHANGED <<taskv, downloads, max_concurrent_downloads, download_threads, keys_path,
                   workv, pool, calls, wcap, now, tracing, disk, log, logging,
                   cancelled, interrupted,
                   lsnv, nszv>>

\* start_all_downloads (lines 183-190): the call.
start_all_downloads ==
    /\ Call
    /\ downloads # <<>> \/ tracing
    /\ Traced("start_all_downloads", 0)
    /\ cpc' = "sa_loop"
    /\ citer' = 1
    /\ started' = 0
    /\ UNCHANGED <<taskv, svcv, workv, ctask, ctmp, now, tracing,
                   pool, wcap, disk, log, logging, cancelled, interrupted,
                   lsnv, nszv>>

\* start_all_downloads lines 186-188: one item of the iteration, with the
\* checks of the start_download it calls.
start_all_item ==
    /\ cpc = "sa_loop"
    /\ IF citer > Len(downloads)
       THEN /\ cpc' = "idle" /\ citer' = 0 /\ ctask' = ctask
            /\ ret' = IF tracing THEN "int" ELSE ret          \* line 190
            /\ retn' = IF tracing THEN started ELSE retn
            /\ started' = 0
       ELSE /\ IF Admitted(downloads[citer])
               THEN cpc' = "sd_dispatch" /\ ctask' = downloads[citer] /\ citer' = citer
               ELSE cpc' = "sa_loop" /\ citer' = citer + 1 /\ ctask' = ctask
            /\ UNCHANGED <<ret, retn, started>>
    /\ UNCHANGED <<taskv, svcv, workv, ctmp, cop, pre, now, tracing,
                   pool, calls, wcap, disk, log, logging, cancelled, interrupted,
                   lsnv, nszv>>

\* pause_download (lines 192-198)
pause_download(t) ==
    /\ Call
    /\ Returned("pause_download", t, "None", 0)
    /\ InRegistry(t)
    /\ status[t] = "downloading"
    /\ LogRoom(1)
    /\ status' = [status EXCEPT ![t] = "paused"]
    /\ log' = Emit(log, t, "paused", "")
    /\ interrupted' = interrupted \cup {t}
    /\ UNCHANGED <<downloaded_bytes, total_bytes, error_message, svcv, workv, callv,
                   started, now, tracing, pool, wcap, disk, logging, cancelled,
                   lsnv, nszv>>

\* pause_download setting paused whatever the status of the task is.
pause_download_Unchecked(t) ==
    /\ Call
    /\ ~(InRegistry(t) /\ status[t] = "downloading")
    /\ Returned("pause_download", t, "None", 0)
    /\ status' = [status EXCEPT ![t] = "paused"]
    /\ UNCHANGED <<downloaded_bytes, total_bytes, error_message, svcv, workv, callv, started,
                   now, tracing, pool, wcap, disk, log, logging, cancelled, interrupted,
                   lsnv, nszv>>

\* pause_download when one of the tests of lines 194 and 196 fails.
pause_download_refused(t) ==
    /\ Call
    /\ ~(InRegistry(t) /\ status[t] = "downloading")
    /\ Returned("pause_download", t, "None", 0)
    /\ UNCHANGED <<taskv, svcv, workv, callv, started, now, tracing,
                   pool, wcap, disk, log, logging, cancelled, interrupted,
                   lsnv, nszv>>

\* resume_download dispatching a worker without the tests of start_download.
resume_download_Ungated(t) ==
    /\ Call
    /\ InRegistry(t)
    /\ status[t] = "paused"
    /\ status' = [status EXCEPT ![t] = "pending"]
    /\ cpc' = "sd_dispatch" /\ ctask' = t
    /\ Traced("resume_download", t)
    /\ UNCHANGED <<downloaded_bytes, total_bytes, error_message, svcv, workv, ctmp, citer,
                   started, now, tracing, pool, wcap, disk, log, logging, cancelled,
                   interrupted,
                   lsnv, nszv>>

\* resume_download (lines 200-206): the task is pending again and
\* start_download is called for it.
resume_download(t) ==
    /\ Call
    /\ InRegistry(t)
    /\ status[t] = "paused"
    /\ status' = [status EXCEPT ![t] = "pending"]
    /\ IF active_downloads < max_concurrent_downloads
       THEN /\ cpc' = "sd_dispatch" /\ ctask' = t
            /\ Traced("resume_download", t)
       ELSE /\ cpc' = cpc /\ ctask' = ctask
            /\ Returned("resume_download", t, "None", 0)
    /\ UNCHANGED <<downloaded_bytes, total_bytes, error_message, svcv, workv, ctmp, citer,
                   started, now, tracing, pool, wcap, disk, log, logging, cancelled,
                   interrupted,
                   lsnv, nszv>>

\* resume_download when one of the tests of lines 202 and 204 fails.
resume_download_refused(t) ==
    /\ Call
    /\ ~(InRegistry(t) /\ status[t] = "paused")
    /\ Returned("resume_download", t, "None", 0)
    /\ UNCHANGED <<taskv, svcv, workv, callv, started, now, tracing,
                   pool, wcap, disk, log, logging, cancelled, interrupted,
                   lsnv, nszv>>

\* cancel_download (lines 208-230)
cancel_download(t) ==
    /\ Call
    /\ Returned("cancel_download", t, "None", 0)
    /\ InRegistry(t)
    /\ LogRoom(1)
    /\ IF status[t] = "downloading"
       THEN /\ status' = [status EXCEPT ![t] = "failed"]
            /\ error_message' = [error_message EXCEPT ![t] = "Cancelled by user"]
       ELSE UNCHANGED <<status, error_message>>
    /\ disk' = [disk EXCEPT ![Dest(t)] = NoFile]
    /\ linked' = Unlinked(Dest(t))
    /\ downloads' = Without(downloads, t)
    /\ download_threads' = download_threads \ {t}
    /\ log' = Emit(log, t, "cancelled", "")
    /\ cancelled' = cancelled \cup {t}
    /\ UNCHANGED <<downloaded_bytes, total_bytes, active_downloads, max_concurrent_downloads,
                   keys_path, nw, wpc, wtask, rpos, spos, wtmp, wtarget, callv,
                   started, now, tracing, pool, wcap, logging, interrupted,
                   lsnv, nszv>>

\* clear_completed_downloads (lines 240-250)
ToRemove == {t \in Registry : status[t] \in {"completed", "failed"}}

RECURSIVE WithoutAll(_, _)
WithoutAll(s, ts) ==
    IF s = <<>> THEN <<>>
    ELSE IF Head(s) \in ts THEN WithoutAll(Tail(s), ts)
    ELSE <<Head(s)>> \o WithoutAll(Tail(s), ts)

clear_completed_downloads ==
    /\ Call
    /\ ToRemove # {} \/ tracing
    /\ Returned("clear_completed_downloads", 0, "None", 0)
    /\ downloads' = WithoutAll(downloads, ToRemove)
    /\ download_threads' = download_threads \ ToRemove
    /\ UNCHANGED <<taskv, active_downloads, max_concurrent_downloads, keys_path,
                   workv, callv, started, now, tracing, pool, wcap, disk, log, logging,
                   cancelled, interrupted,
                   lsnv, nszv>>

\* add_status_callback (lines 54-56); a callback is registered once.
add_status_callback(l) ==
    /\ Call
    /\ \A i \in 1..Len(status_callbacks) : status_callbacks[i] # l
    /\ Returned("add_status_callback", l, "None", 0)
    /\ status_callbacks' = Append(status_callbacks, l)
    /\ UNCHANGED <<taskv, svcv, workv, callv, started, now, tracing, pool, wcap, disk, log,
                   logging, cancelled, interrupted, progress_callbacks, raising, nszv>>

\* add_progress_callback (lines 50-52); a callback is registered once.
add_progress_callback(l) ==
    /\ Call
    /\ \A i \in 1..Len(progress_callbacks) : progress_callbacks[i] # l
    /\ Returned("add_progress_callback", l, "None", 0)
    /\ progress_callbacks' = Append(progress_callbacks, l)
    /\ UNCHANGED <<taskv, svcv, workv, callv, started, now, tracing, pool, wcap, disk, log,
                   logging, cancelled, interrupted, status_callbacks, raising, nszv>>

\* set_keys_path lines 45-54 (nsz_service.py): the key file that the
\* argument names, None when there is none.  The argument is the path p
\* (dir FALSE) or the directory that holds p (dir TRUE); "./keys.txt" does
\* not end in '.keys' and the file looked for in a directory is prod.keys.
Resolved(p, dir) ==
    IF dir
    THEN (IF p = "./keys.txt"
          THEN (IF keyfiles["./prod.keys"] # NoKeys THEN "./prod.keys" ELSE "None")
          ELSE (IF keyfiles[p] # NoKeys THEN p ELSE "None"))
    ELSE IF keyfiles[p] # NoKeys /\ p # "./keys.txt" THEN p ELSE "None"

\* set_keys_path (nsz_service.py lines 35-61), up to the copy of line 109
\* when _ensure_keys_in_switch_dir makes one.
set_keys_path(p, dir) ==
    /\ Call
    /\ IF Resolved(p, dir) # "None" /\ validate_keys_file(Resolved(p, dir))
       THEN /\ keys_path' = Resolved(p, dir)
            /\ IF NeedsCopy(Resolved(p, dir))
               THEN cpc' = "keys_copy" /\ Traced("set_keys_path", 0)
               ELSE cpc' = cpc /\ Returned("set_keys_path", 0, "True", 0)
       ELSE /\ UNCHANGED <<keys_path, cpc>>
            /\ Returned("set_keys_path", 0, "False", 0)
    /\ UNCHANGED <<taskv, downloads, active_downloads, max_concurrent_downloads,
                   download_threads, workv, ctask, ctmp, citer, started, now, tracing,
                   pool, wcap, disk, log, logging, cancelled, interrupted, lsnv, nszv>>

\* set_keys_path, nsz_service.py line 109 and line 59: the key file is
\* copied and the call returns True; shutil.copy2 raises SameFileError when
\* keys_path has become the well-known location itself.
caller_keys_copy ==
    /\ cpc = "keys_copy"
    /\ keyfiles' = KeysCopied
    /\ cpc' = "idle"
    /\ ret' = IF ~tracing THEN ret ELSE IF SameFile THEN "raised" ELSE "True"
    /\ UNCHANGED <<taskv, svcv, workv, ctask, ctmp, citer, cop, retn, pre, started, now,
                   tracing, pool, calls, wcap, disk, log, logging, cancelled, interrupted,
                   lsnv, outdir, uppercase, plainfiles, cwdv,
                   keytext, valid>>

\* ---------------------------------------------------------------- worker
\* The except block of _download_worker (lines 333-337).
Failed(w, msg) ==
    /\ status' = [status EXCEPT ![wtask[w]] = "failed"]
    /\ error_message' = [error_message EXCEPT ![wtask[w]] = msg]
    /\ log' = Emit(log, wtask[w], "failed", msg)
    /\ wpc' = [wpc EXCEPT ![w] = "fin_read"]

\* _download_worker lines 254-258.  The lookup is outside the try: a task
\* that left the registry ends the thread with a KeyError, and neither the
\* except block nor the finally block runs.
worker_init(w) ==
    /\ wpc[w] = "start"
    /\ LogRoom(1)
    /\ IF InRegistry(wtask[w])
       THEN /\ status' = [status EXCEPT ![wtask[w]] = "downloading"]
            /\ log' = Emit(log, wtask[w], "started", "")
            /\ wpc' = [wpc EXCEPT ![w] = "prepare"]
       ELSE /\ wpc' = [wpc EXCEPT ![w] = "crashed"]
            /\ UNCHANGED <<status, log>>
    /\ UNCHANGED <<downloaded_bytes, total_bytes, error_message, svcv, nw, wtask, rpos, spos,
                   linked, wtmp, wtarget, callv, pool, calls, wcap, obsv, disk, logging, cancelled, interrupted,
                   lsnv, nszv>>

\* lines 261-271: the resume position is the size of the file at the path.
worker_prepare(w) ==
    /\ wpc[w] = "prepare"
    /\ rpos' = [rpos EXCEPT ![w] = FileSize(Dest(wtask[w]))]
    /\ wpc' = [wpc EXCEPT ![w] = "request"]
    /\ UNCHANGED <<taskv, svcv, nw, wtask, spos, linked, wtmp, wtarget, callv, envv>>

\* lines 268-271: the headers of the request; the Range header is
\* represented by the offset it names.
Headers(w) == IF rpos[w] > 0 THEN {rpos[w]} ELSE {}

\* The first chunk the server sends in answer to a request with headers h.
RangeStart(h) == IF h = {} THEN 0 ELSE CHOOSE off \in h : TRUE

\* lines 277-284: total_bytes from the Content-Length of the response (cl:
\* the header is present; its value is the length of what the server
\* sends), downloaded_bytes from the resume position.
Totals(w, cl) ==
    /\ total_bytes' = [total_bytes EXCEPT
                          ![wtask[w]] = IF cl THEN (ContentLen - RangeStart(Headers(w))) + rpos[w]
                                        ELSE 0]
    /\ downloaded_bytes' = [downloaded_bytes EXCEPT ![wtask[w]] = rpos[w]]

\* line 287 with another choice of mode: always 'wb'.
Mode_Truncating(w) == "wb"

\* line 287: mode = 'ab' if resume_pos > 0 else 'wb'.
Mode(w) == IF rpos[w] > 0 THEN "ab" ELSE "wb"

\* line 293: open(output_path, mode).  'ab' keeps the content of an
\* existing file and creates a missing one, 'wb' leaves an empty file.
Opened(w) ==
    IF Mode(w) = "ab" /\ disk[Dest(wtask[w])] # NoFile THEN disk[Dest(wtask[w])] ELSE <<>>

\* lines 274-293: the response arrives and the file is opened.
worker_request_ok(w) ==
    /\ wpc[w] = "request"
    /\ rpos[w] < ContentLen
    /\ \E cl \in BOOLEAN : Totals(w, cl)
    /\ disk' = [disk EXCEPT ![Dest(wtask[w])] = Opened(w)]
    /\ linked' = [linked EXCEPT ![w] = TRUE]
    /\ spos' = [spos EXCEPT ![w] = RangeStart(Headers(w))]
    /\ wpc' = [wpc EXCEPT ![w] = "loop"]
    /\ UNCHANGED <<status, error_message, svcv, nw, wtask, rpos, wtmp, wtarget, callv,
                   pool, calls, wcap, obsv, log, logging, cancelled, interrupted,
                   lsnv, nszv>>

\* The except block after a failed request: the transfer has not begun.
RequestFailed(w) ==
    /\ LogRoom(1)
    /\ Failed(w, "exception")
    /\ rpos' = [rpos EXCEPT ![w] = 0]
    /\ UNCHANGED <<downloaded_bytes, total_bytes, svcv, nw, wtask, spos, linked, wtmp,
                   wtarget, callv, pool, calls, wcap, obsv, disk, logging, cancelled, interrupted,
                   lsnv, nszv>>

\* line 275: the range starts at or after the end of the content, the
\* server answers 416 and raise_for_status raises.
worker_range_unsatisfiable(w) ==
    /\ wpc[w] = "request"
    /\ rpos[w] >= ContentLen
    /\ RequestFailed(w)

\* lines 274-275 raise for a fault of the network or of the server (no
\* connection, a timeout, an HTTP error status).
worker_request_fails(w) ==
    /\ wpc[w] = "request"
    /\ RequestFailed(w)

\* f.write(chunk) through the worker's handle: 'ab' appends at the end of
\* the file, 'wb' writes at the handle's own offset.
Written(w) ==
    IF ~linked[w] THEN disk[Dest(wtask[w])]
    ELSE IF Mode(w) = "ab" THEN Append(disk[Dest(wtask[w])], spos[w])
    ELSE WriteAt(disk[Dest(wtask[w])], spos[w], spos[w])

\* The with block of line 293 is left: the file is closed, and the locals of
\* the transfer are dead.
Closed(w) ==
    /\ linked' = [linked EXCEPT ![w] = FALSE]
    /\ rpos' = [rpos EXCEPT ![w] = 0]
    /\ spos' = [spos EXCEPT ![w] = 0]

\* lines 294-315: the next chunk has arrived.  The status is checked
\* before the chunk is written; on a break the with block closes the file
\* and line 318 finds the status that ended the loop.
worker_chunk(w) ==
    /\ wpc[w] = "loop"
    /\ spos[w] < ContentLen
    /\ IF status[wtask[w]] # "downloading"
       THEN /\ Closed(w)
            /\ wpc' = [wpc EXCEPT ![w] = "fin_read"]
            /\ UNCHANGED <<downloaded_bytes, disk, log>>
       ELSE /\ disk' = [disk EXCEPT ![Dest(wtask[w])] = Written(w)]
            /\ downloaded_bytes' = [downloaded_bytes EXCEPT ![wtask[w]] = @ + 1]
            /\ spos' = [spos EXCEPT ![w] = @ + 1]
            /\ \E tick \in BOOLEAN :
                  /\ tick => ProgressRoom
                  /\ log' = Progressed(log, wtask[w], tick)
            /\ UNCHANGED <<linked, rpos, wpc>>
    /\ UNCHANGED <<status, total_bytes, error_message, svcv, nw, wtask, wtmp, wtarget,
                   callv, pool, calls, wcap, obsv, logging, cancelled, interrupted,
                   lsnv, nszv>>

\* lines 318-322 and 328-331: the completion rule.
Complete(t) == total_bytes[t] = 0 \/ downloaded_bytes[t] >= total_bytes[t]

\* The iteration of line 294 ends: the file is closed and lines 317-331 run.
StreamEnded(w) ==
    /\ LogRoom(1)
    /\ Closed(w)
    /\ IF status[wtask[w]] # "downloading"
       THEN /\ wpc' = [wpc EXCEPT ![w] = "fin_read"]
            /\ UNCHANGED <<status, error_message, log>>
       ELSE IF Complete(wtask[w])
            THEN /\ status' = [status EXCEPT ![wtask[w]] = "completed"]
                 /\ wpc' = [wpc EXCEPT ![w] = "post"]
                 /\ UNCHANGED <<error_message, log>>
            ELSE Failed(w, "Download incomplete")
    /\ UNCHANGED <<downloaded_bytes, total_bytes, svcv, nw, wtask, wtmp, wtarget,
                   callv, pool, calls, wcap, obsv, disk, logging, cancelled, interrupted,
                   lsnv, nszv>>

\* The server has served every chunk of the content.
worker_stream_end(w) ==
    /\ wpc[w] = "loop"
    /\ spos[w] = ContentLen
    /\ StreamEnded(w)

\* The connection is closed before the end of the content and the read
\* reports the end of the stream, not an error.
worker_stream_cut(w) ==
    /\ wpc[w] = "loop"
    /\ spos[w] < ContentLen
    /\ StreamEnded(w)

\* The read of the next chunk raises (the connection is lost): the with
\* block closes the file and the except block runs.
worker_stream_fails(w) ==
    /\ wpc[w] = "loop"
    /\ spos[w] < ContentLen
    /\ LogRoom(1)
    /\ Closed(w)
    /\ Failed(w, "exception")
    /\ UNCHANGED <<downloaded_bytes, total_bytes, svcv, nw, wtask, wtmp, wtarget,
                   callv, pool, calls, wcap, obsv, disk, logging, cancelled, interrupted,
                   lsnv, nszv>>

\* ---------------------------------------------------------------- post-processing
\* _handle_post_download lines 362-365, the outcomes of the archive I/O:
\* extractall and os.remove go through, extractall raises, os.remove raises.
ZipOutcomes == {"ok", "extract_raises", "remove_raises"}

\* lines 362-367: the try block of the zip branch is run to its end; a
\* missing archive raises.
Extracted(t, zip) == zip = "ok" /\ disk[Dest(t)] # NoFile

\* _extract_zip (lines 395-398): the destination directory after the try
\* block, all the entries of the archive in it unless extractall raised.
Unzipped(t, zip) ==
    IF disk[Dest(t)] # NoFile /\ zip \in {"ok", "remove_raises"}
    THEN outdir \cup {Entries(Dest(t))}
    ELSE outdir

\* The archive removed whether or not the try block was run to its end.
ArchiveAfter_Removed(t, zip) == NoFile

\* lines 364-365: the archive after the try block.
ArchiveAfter(t, zip) == IF Extracted(t, zip) THEN NoFile ELSE disk[Dest(t)]

\* decompress_nsz (nsz_service.py lines 162-166): the message of the
\* returns that come before the call of the library, "" when none is taken.
NszRefusal(t) ==
    IF ~is_available THEN "NSZ service not available. Check nsz library and keys file."
    ELSE IF disk[Dest(t)] = NoFile THEN "NSZ file not found"
    ELSE ""

\* nsz_service.py lines 194-198: os.path.isfile(nsp_path), nsp_path being
\* the name of the source with '.nsz' replaced by '.nsp'.  str.replace
\* compares the case: a name whose suffix is not in lower case is unchanged,
\* and nsp_path is the path of the source.
ExpectedNspExists(f, dir) ==
    IF f \in uppercase THEN disk[f] # NoFile ELSE NspFile(f) \in dir

\* nsz_service.py lines 193-209, the result of decompress_nsz after the call
\* of the library: "" when it returns True, the message when it returns
\* False.  dir: the destination directory after the call; raised: the call
\* raised an exception.
NszResult(f, dir, raised) ==
    IF raised THEN "NSZ decompression failed"
    ELSE IF ExpectedNspExists(f, dir) THEN ""
    ELSE IF \E a \in dir : a[1] = "nsp" THEN ""
    ELSE "Decompression completed but no NSP files found"

\* The .nsz file removed once the library has returned.
KeptSource_Removed(f) == NoFile

\* _handle_post_download lines 381-384: the .nsz file after decompression.
KeptSource(f) == disk[f]

\* task.error_message after _handle_post_download (lines 371, 387); res is
\* the result of decompress_nsz.
PostMessage(t, zip, res) ==
    IF Suffix(Dest(t)) = "zip" /\ ~Extracted(t, zip) THEN "ZIP extraction failed"
    ELSE IF Suffix(Dest(t)) = "nsz" /\ res # "" THEN res
    ELSE error_message[t]

\* The events of PostEvents with the completed event emitted before
\* post-processing.
PostEvents_CompletedFirst(t, zip, res) ==
    <<(<<"completed", "">>)>>
    \o (IF Suffix(Dest(t)) = "zip"
        THEN (IF Extracted(t, zip) THEN <<(<<"extracted", "">>)>>
              ELSE <<(<<"extract_failed", PostMessage(t, zip, res)>>)>>)
        ELSE IF Suffix(Dest(t)) = "nsz"
        THEN (IF res = "" THEN <<(<<"decompressed", "">>)>>
              ELSE <<(<<"decompress_failed", res>>)>>)
        ELSE <<>>)

\* The status events of lines 367, 372, 384, 388 and 327 (kind and
\* message), in the order of their emission.
PostEvents(t, zip, res) ==
    (IF Suffix(Dest(t)) = "zip"
     THEN (IF Extracted(t, zip) THEN <<(<<"extracted", "">>)>>
           ELSE <<(<<"extract_failed", PostMessage(t, zip, res)>>)>>)
     ELSE IF Suffix(Dest(t)) = "nsz"
     THEN (IF res = "" THEN <<(<<"decompressed", "">>)>>
           ELSE <<(<<"decompress_failed", res>>)>>)
     ELSE <<>>)
    \o <<(<<"completed", "">>)>>

RECURSIVE EmitAll(_, _, _)
EmitAll(l, t, events) ==
    IF events = <<>> THEN l
    ELSE EmitAll(Emit(l, t, Head(events)[1], Head(events)[2]), t, Tail(events))

\* line 377: the decompressing event of an .nsz task.
Announced(l, t) == IF Suffix(Dest(t)) = "nsz" THEN Emit(l, t, "decompressing", "") ELSE l

\* decompress_nsz, nsz_service.py lines 175 and 180: the working directory
\* is saved in the local original_cwd and changed to the output directory.
Entered(w) ==
    /\ original_cwd' = [original_cwd EXCEPT ![w] = cwd]
    /\ cwd' = Destination(wtask[w])

\* decompress_nsz returns through its finally block (lines 210-213):
\* os.chdir(original_cwd).
Left(w) ==
    /\ cwd' = original_cwd[w]
    /\ original_cwd' = [original_cwd EXCEPT ![w] = StartDir]

\* lines 325-327: _handle_post_download, then the completed event.  The
\* lookup of line 356 raises KeyError when the task has left the registry;
\* the except block of the worker catches it.  For an .nsz file that
\* decompress_nsz accepts the step ends where the worker blocks: at the
\* copy of the key file or at the call of the library.
worker_post(w) ==
    /\ wpc[w] = "post"
    /\ LogRoom(3)
    /\ IF ~InRegistry(wtask[w])
       THEN /\ Failed(w, "exception")
            /\ UNCHANGED <<disk, linked, outdir, cwdv>>
       ELSE IF Suffix(Dest(wtask[w])) = "nsz" /\ NszRefusal(wtask[w]) = ""
       THEN /\ log' = Announced(log, wtask[w])
            /\ wpc' = [wpc EXCEPT ![w] = IF NeedsCopy(keys_path) THEN "keys_copy"
                                         ELSE "decompress"]
            /\ Entered(w)
            /\ UNCHANGED <<status, error_message, disk, linked, outdir>>
       ELSE \E zip \in ZipOutcomes :
            /\ error_message' = [error_message EXCEPT
                   ![wtask[w]] = PostMessage(wtask[w], zip, NszRefusal(wtask[w]))]
            /\ log' = EmitAll(Announced(log, wtask[w]), wtask[w],
                              PostEvents(wtask[w], zip, NszRefusal(wtask[w])))
            /\ IF Suffix(Dest(wtask[w])) = "zip"
               THEN /\ disk' = [disk EXCEPT ![Dest(wtask[w])] = ArchiveAfter(wtask[w], zip)]
                    /\ linked' = IF Extracted(wtask[w], zip) THEN Unlinked(Dest(wtask[w]))
                                 ELSE linked
                    /\ outdir' = Unzipped(wtask[w], zip)
               ELSE UNCHANGED <<disk, linked, outdir>>
            /\ wpc' = [wpc EXCEPT ![w] = "fin_read"]
            /\ UNCHANGED <<status, cwdv>>
    /\ UNCHANGED <<downloaded_bytes, total_bytes, svcv, nw, wtask, rpos, spos, wtmp, wtarget,
                   callv, pool, calls, wcap, obsv, logging, cancelled, interrupted,
                   lsnv, keyfiles, uppercase, plainfiles,
                   keytext, valid>>

\* decompress_nsz, nsz_service.py line 183: _ensure_keys_in_switch_dir
\* copies the key file (line 109); when the copy raises, the except clause
\* of line 208 returns the failure.
worker_keys_copy(w) ==
    /\ wpc[w] = "keys_copy"
    /\ LogRoom(2)
    /\ keyfiles' = KeysCopied
    /\ IF SameFile
       THEN /\ error_message' = [error_message EXCEPT
                   ![wtask[w]] = PostMessage(wtask[w], "ok", "NSZ decompression failed")]
            /\ log' = EmitAll(log, wtask[w],
                              PostEvents(wtask[w], "ok", "NSZ decompression failed"))
            /\ Left(w)
            /\ wpc' = [wpc EXCEPT ![w] = "fin_read"]
       ELSE /\ wpc' = [wpc EXCEPT ![w] = "decompress"]
            /\ UNCHANGED <<error_message, log, cwdv>>
    /\ UNCHANGED <<status, downloaded_bytes, total_bytes, svcv, nw, wtask, rpos, spos, linked,
                   wtmp, wtarget, callv, pool, calls, wcap, obsv, disk, logging, cancelled,
                   interrupted, lsnv, outdir, uppercase, plainfiles,
                   keytext, valid>>

\* nsz_service.py lines 191-209 and lines 381-388, 327: the call of the nsz
\* library returns or raises, having written the .nsp files of out, and the
\* result is reported.
worker_decompress(w) ==
    /\ wpc[w] = "decompress"
    /\ LogRoom(2)
    /\ \E out \in SUBSET {NspFile(Dest(wtask[w])), NspFile(0)}, raised \in BOOLEAN :
          /\ outdir' = outdir \cup out
          /\ error_message' = [error_message EXCEPT
                 ![wtask[w]] = PostMessage(wtask[w], "ok",
                                           NszResult(Dest(wtask[w]), outdir \cup out, raised))]
          /\ log' = EmitAll(log, wtask[w],
                            PostEvents(wtask[w], "ok",
                                       NszResult(Dest(wtask[w]), outdir \cup out, raised)))
    /\ disk' = [disk EXCEPT ![Dest(wtask[w])] = KeptSource(Dest(wtask[w]))]
    /\ Left(w)
    /\ wpc' = [wpc EXCEPT ![w] = "fin_read"]
    /\ UNCHANGED <<status, downloaded_bytes, total_bytes, svcv, nw, wtask, rpos, spos, linked,
                   wtmp, wtarget, callv, pool, calls, wcap, obsv, logging, cancelled,
                   interrupted, lsnv, keyfiles, uppercase, plainfiles,
                   keytext, valid>>

\* ---------------------------------------------------------------- finally block
\* line 340, the load of "self.active_downloads -= 1".
worker_dec_read(w) ==
    /\ wpc[w] = "fin_read"
    /\ wtmp' = [wtmp EXCEPT ![w] = active_downloads]
    /\ wpc' = [wpc EXCEPT ![w] = "fin_write"]
    /\ UNCHANGED <<taskv, svcv, nw, wtask, rpos, spos, linked, wtarget, callv, envv>>

\* line 340, the store, and line 341: the progress listeners are called
\* once more, whatever the status of the task.
worker_dec_write(w) ==
    /\ wpc[w] = "fin_write"
    /\ (logging /\ progress_callbacks # <<>>) => ProgressRoom
    /\ active_downloads' = wtmp[w] - 1
    /\ wtmp' = [wtmp EXCEPT ![w] = 0]
    /\ log' = Progressed(log, wtask[w], TRUE)
    /\ wpc' = [wpc EXCEPT ![w] = "next"]
    /\ UNCHANGED <<taskv, downloads, max_concurrent_downloads, download_threads, keys_path,
                   nw, wtask, rpos, spos, linked, wtarget, callv, pool, calls, wcap, obsv,
                   disk, logging, cancelled, interrupted, lsnv, nszv>>

\* _start_next_pending_download lines 349-350: the first pending task in
\* the iteration order of the registry (0: there is none).
FirstPending ==
    IF \E i \in 1..Len(downloads) : status[downloads[i]] = "pending"
    THEN downloads[CHOOSE i \in 1..Len(downloads) :
                      /\ status[downloads[i]] = "pending"
                      /\ \A j \in 1..(i - 1) : status[downloads[j]] # "pending"]
    ELSE 0

\* lines 344-352 with the checks of the start_download it calls.
worker_next(w) ==
    /\ wpc[w] = "next"
    /\ IF active_downloads < max_concurrent_downloads /\ FirstPending # 0
       THEN /\ wtarget' = [wtarget EXCEPT ![w] = FirstPending]
            /\ wpc' = [wpc EXCEPT ![w] = "sd_dispatch"]
       ELSE /\ wpc' = [wpc EXCEPT ![w] = "done"]
            /\ UNCHANGED wtarget
    /\ UNCHANGED <<taskv, svcv, nw, wtask, rpos, spos, linked, wtmp, callv, envv>>

\* start_download lines 174-176, run by a worker.
worker_dispatch(w) ==
    /\ wpc[w] = "sd_dispatch"
    /\ Dispatch(wtarget[w], [wpc EXCEPT ![w] = "sd_read"])
    /\ UNCHANGED <<taskv, svcv, rpos, spos, linked, wtmp, wtarget, callv, envv>>

\* start_download lines 178-179 (the load), run by a worker.
worker_inc_read(w) ==
    /\ wpc[w] = "sd_read"
    /\ download_threads' = download_threads \cup {wtarget[w]}
    /\ wtmp' = [wtmp EXCEPT ![w] = active_downloads]
    /\ wpc' = [wpc EXCEPT ![w] = "sd_write"]
    /\ UNCHANGED <<taskv, downloads, active_downloads, max_concurrent_downloads, keys_path,
                   nw, wtask, rpos, spos, linked, wtarget, callv, envv>>

\* start_download line 179 (the store), run by a worker; the worker ends.
worker_inc_write(w) ==
    /\ wpc[w] = "sd_write"
    /\ active_downloads' = wtmp[w] + 1
    /\ wtmp' = [wtmp EXCEPT ![w] = 0]
    /\ wtarget' = [wtarget EXCEPT ![w] = 1]
    /\ wpc' = [wpc EXCEPT ![w] = "done"]
    /\ UNCHANGED <<taskv, downloads, max_concurrent_downloads, download_threads, keys_path,
                   nw, wtask, rpos, spos, linked, callv, envv>>

\* ---------------------------------------------------------------- specification
CallerStep ==
    \/ \E t \in TaskIds : add_download(t)
    \/ \E t \in TaskIds : start_download(t)
    \/ caller_dispatch
    \/ caller_inc_read
    \/ caller_inc_write
    \/ start_all_downloads
    \/ start_all_item
    \/ \E t \in TaskIds : pause_download(t)
    \/ \E t \in TaskIds : resume_download(t)
    \/ \E t \in TaskIds : cancel_download(t)
    \/ clear_completed_downloads

WorkerStep(w) ==
    \/ worker_init(w)
    \/ worker_prepare(w)
    \/ worker_request_ok(w)
    \/ worker_range_unsatisfiable(w)
    \/ worker_chunk(w)
    \/ worker_stream_end(w)
    \/ worker_post(w)
    \/ worker_dec_read(w)
    \/ worker_dec_write(w)
    \/ worker_next(w)
    \/ worker_dispatch(w)
    \/ worker_inc_read(w)
    \/ worker_inc_write(w)

\* The steps of a worker inside decompress_nsz once it has found a key file.
NszStep(w) ==
    \/ worker_keys_copy(w)
    \/ worker_decompress(w)

\* Faults of the network: a request that fails, a stream that breaks off.
FaultStep(w) ==
    \/ worker_request_fails(w)
    \/ worker_stream_cut(w)
    \/ worker_stream_fails(w)

Next ==
    \/ CallerStep
    \/ \E w \in Workers : WorkerStep(w)
    \/ \E w \in Workers : FaultStep(w)

Spec == Init /\ [][Next]_vars

\* The same service on a network without faults: every transfer is served
\* to the end of the content.
NextReliable ==
    \/ CallerStep
    \/ \E w \in Workers : WorkerStep(w)

SpecReliable == Init /\ [][NextReliable]_vars

\* A queue of NumTasks submitted tasks and one slot.
InitQueue ==
    /\ InitService([i \in 1..NumTasks |-> i])
    /\ max_concurrent_downloads = 1
    /\ NoKeyFiles
    /\ Plain
    /\ logging = FALSE
    /\ tracing = FALSE
    /\ wcap = MaxWorkers

StartCallSteps ==
    \/ caller_dispatch
    \/ caller_inc_read
    \/ caller_inc_write

\* The caller starts tasks of the queue one by one while workers run.
InitRace == InitQueue /\ calls = RaceCalls

NextRace ==
    \/ \E t \in TaskIds : start_download(t)
    \/ StartCallSteps
    \/ \E w \in Workers : WorkerStep(w)

SpecRace == InitRace /\ [][NextRace]_vars

\* The caller calls start_all_downloads once and nothing else.
InitAuto == InitQueue /\ calls = 1

NextAuto ==
    \/ start_all_downloads
    \/ start_all_item
    \/ StartCallSteps
    \/ \E w \in Workers : WorkerStep(w)

SpecAuto == InitAuto /\ [][NextAuto]_vars

\* The service with one task submitted and the status events recorded as
\* the listeners receive them, with and without key material.
InitEvents ==
    /\ InitService(<<1>>)
    /\ max_concurrent_downloads = MaxConcurrent
    /\ keyfiles \in {[p \in KeyPaths |-> NoKeys],
                     [p \in KeyPaths |-> IF p = "./keys.txt" THEN "keysA" ELSE NoKeys]}
    /\ NSZService_init
    /\ Plain
    /\ logging = TRUE
    /\ tracing = FALSE
    /\ calls = EventCalls
    /\ wcap = SpecWorkers

NextEvents ==
    \/ \E t \in TaskIds : \/ start_download(t)
                           \/ pause_download(t)
                           \/ resume_download(t)
                           \/ cancel_download(t)
    \/ StartCallSteps
    \/ \E w \in Workers : WorkerStep(w) \/ NszStep(w) \/ FaultStep(w)

SpecEvents == InitEvents /\ [][NextEvents]_vars

\* The service with two tasks submitted and one slot; the calls of the
\* caller, what they return and the status events are recorded, and the
\* caller also makes the calls that the service refuses.
InitCalls ==
    /\ InitService(<<1, 2>>)
    /\ max_concurrent_downloads = 1
    /\ NoKeyFiles
    /\ Plain
    /\ logging = TRUE
    /\ tracing = TRUE
    /\ calls = TracedCalls
    /\ wcap = SpecWorkers

RefusedStep ==
    \E t \in TaskIds : \/ start_download_refused(t)
                       \/ pause_download_refused(t)
                       \/ resume_download_refused(t)

NextCalls ==
    \/ CallerStep
    \/ RefusedStep
    \/ \E w \in Workers : WorkerStep(w)

SpecCalls == InitCalls /\ [][NextCalls]_vars

\* Some tasks submitted and one or more slots, the calls recorded; the
\* worker threads run only between two calls of the caller, so no worker
\* changes state during a call.
InitSerial ==
    /\ \E n \in 1..NumTasks : InitService([i \in 1..n |-> i])
    /\ max_concurrent_downloads \in 1..MaxConcurrent
    /\ NoKeyFiles
    /\ Plain
    /\ logging = TRUE
    /\ tracing = TRUE
    /\ calls = TracedCalls
    /\ wcap = SpecWorkers

NextSerial ==
    \/ start_all_downloads
    \/ start_all_item
    \/ StartCallSteps
    \/ \E t \in TaskIds : start_download(t) \/ pause_download(t)
    \/ cpc = "idle" /\ \E w \in Workers : WorkerStep(w)

SpecSerial == InitSerial /\ [][NextSerial]_vars

\* The caller submits files by name while the clock runs, and cancels
\* tasks; no download is started.
InitIds ==
    /\ InitService(<<>>)
    /\ max_concurrent_downloads = MaxConcurrent
    /\ NoKeyFiles
    /\ Plain
    /\ logging = TRUE
    /\ tracing = TRUE
    /\ calls = IdCalls
    /\ wcap = SpecWorkers

NextIds ==
    \/ \E f \in Files : add_download_at(f)
    \/ Tick
    \/ \E t \in TaskIds : cancel_download(t)

SpecIds == InitIds /\ [][NextIds]_vars

\* ---------------------------------------------------------------- properties
\* A worker thread that has been started and has not reached its finally
\* block: it still writes the fields of its task and the task's file.
Running(w) ==
    wpc[w] \in {"start", "prepare", "request", "loop", "post", "keys_copy", "decompress"}

\* C1: the number of tasks whose status is downloading never exceeds
\* max_concurrent_downloads.
C1_ConcurrencyBound ==
    Cardinality({t \in Registry : status[t] = "downloading"}) <= max_concurrent_downloads

\* C2: at any time at most one worker thread is running for a given task id.
C2_SingleWriterPerTask ==
    \A t \in TaskIds : Cardinality({w \in Workers : Running(w) /\ wtask[w] = t}) <= 1

\* C3: once cancel_download(t) has returned, the task is absent from the
\* registry and its destination file does not exist, for as long as no
\* other task with the same destination has been submitted.
C3_CancelProperty ==
    \A t \in cancelled :
        (\A u \in TaskIds \ {t} : Dest(u) = Dest(t) => u \in pool)
            => ~InRegistry(t) /\ disk[Dest(t)] = NoFile

\* C4: on a network without faults, when a task that was paused and
\* resumed is completed and no transfer to its path is in progress, its
\* file holds exactly the chunks 0 .. ContentLen-1, in order.
C4_ResumeProperty ==
    \A t \in Registry \cap interrupted :
        (/\ status[t] = "completed"
         /\ disk[Dest(t)] # NoFile
         /\ \A w \in Workers :
               wpc[w] \in {"prepare", "request", "loop"} => Dest(wtask[w]) # Dest(t))
            => disk[Dest(t)] = FullContent

\* The number of times worker w has executed line 340.
Decrements(w) ==
    IF wpc[w] \in {"next", "sd_dispatch", "sd_read", "sd_write", "done"} THEN 1 ELSE 0

\* C5: every worker that was dispatched has decremented active_downloads
\* exactly once when it has ended, whatever the outcome.
C5_WorkerReleasesSlot ==
    \A w \in Workers : wpc[w] \in {"done", "crashed"} => Decrements(w) = 1

\* C6: after start_all_downloads on a queue longer than
\* max_concurrent_downloads, when every thread has ended without any other
\* call, no task is left pending.
C6_AutoAdvance ==
    (/\ cpc = "idle"
     /\ calls = 0
     /\ \A w \in Workers : wpc[w] \in {"none", "done", "crashed"})
        => \A t \in Registry : status[t] # "pending"

\* C7: once a task's status is completed, no step sets it to failed.
C7_CompletedNeverFailed ==
    [][\A t \in TaskIds : status[t] = "completed" => status'[t] # "failed"]_vars

\* The transitions of the task state machine.
Transition(a, b) ==
    \/ a = b
    \/ a = "pending" /\ b = "downloading"
    \/ a = "downloading" /\ b \in {"completed", "failed", "paused"}
    \/ a = "paused" /\ b = "pending"

C9_StateMachine ==
    [][\A t \in TaskIds : InRegistry(t) /\ InRegistry(t)'
                            => Transition(status[t], status'[t])]_vars

\* C10: downloaded_bytes of a task does not decrease between two
\* consecutive states in which its status is downloading, and it never
\* exceeds a nonzero total_bytes.
C10_BytesMonotoneAndBounded ==
    /\ [][\A t \in TaskIds :
            (InRegistry(t) /\ InRegistry(t)'
             /\ status[t] = "downloading" /\ status'[t] = "downloading")
                => downloaded_bytes'[t] >= downloaded_bytes[t]]_vars
    /\ [](\A t \in Registry : total_bytes[t] # 0 => downloaded_bytes[t] <= total_bytes[t])

\* The worker thread w exists and has not ended.
Alive(w) == wpc[w] \notin {"none", "done", "crashed"}

\* C11: once a task's total_bytes is nonzero it never changes again, across
\* pause and resume and whether or not a response carries Content-Length
\* (checked for the steps where the task has a single worker).
C11_TotalBytesFixed ==
    [][\A t \in TaskIds :
          (/\ InRegistry(t) /\ InRegistry(t)'
           /\ Cardinality({w \in Workers : Alive(w) /\ wtask[w] = t}) <= 1
           /\ total_bytes[t] # 0)
              => total_bytes'[t] = total_bytes[t]]_vars

\* C12: a call of start_download for an id that is not in the registry, for
\* a task that is not pending, or with active_downloads at the limit,
\* returns False and changes nothing: registry, task fields, counter, thread
\* table, worker threads, files and events are as before.
C12_RefusedStartChangesNothing ==
    [][\A t \in TaskIds :
          (/\ calls' = calls - 1
           /\ cop' = <<"start_download", t>>
           /\ \/ ~InRegistry(t)
              \/ status[t] # "pending"
              \/ active_downloads >= max_concurrent_downloads)
              => /\ ret' = "False"
                 /\ cpc' = "idle"
                 /\ UNCHANGED <<taskv, svcv, workv, disk, log>>]_vars

\* C12, a state right after such a call: start_download of a pending task
\* of the registry has returned False because every slot is taken.
C12_Witness ==
    /\ cpc = "idle"
    /\ cop[1] = "start_download"
    /\ ret = "False"
    /\ InRegistry(cop[2])
    /\ status[cop[2]] = "pending"
    /\ active_downloads >= max_concurrent_downloads

\* C13: at the moment start_download returns True the task's status is
\* downloading; and when start_all_downloads returns while no worker it
\* started has made progress, as many tasks are downloading as it started.
C13_StartedIsDownloading ==
    [][/\ \A t \in TaskIds :
             (cop = <<"start_download", t>> /\ ret # "True" /\ ret' = "True")
                 => status'[t] = "downloading"
       /\ (/\ cop[1] = "start_all_downloads" /\ ret # "int" /\ ret' = "int"
           /\ \A w \in Workers : wpc'[w] \in {"none", "start"})
              => Cardinality({t \in Registry : status'[t] = "downloading"}) = retn']_vars

\* C14: when no worker changes state during the call, start_all_downloads
\* returns min(p, max(0, max_concurrent_downloads - a)) for the p pending
\* tasks and the counter a it found; and a call that finds the counter at
\* the limit changes nothing at any of its steps and returns 0.
C14_StartAllCount ==
    [][/\ (cop[1] = "start_all_downloads" /\ ret # "int" /\ ret' = "int")
          => LET free == IF max_concurrent_downloads - pre[2] >= 0
                          THEN max_concurrent_downloads - pre[2] ELSE 0
             IN  retn' = (IF pre[1] <= free THEN pre[1] ELSE free)
       /\ (/\ cop'[1] = "start_all_downloads"
           /\ cpc # "idle" \/ calls' = calls - 1
           /\ pre'[2] >= max_concurrent_downloads)
          => /\ UNCHANGED <<taskv, svcv, workv, disk, log>>
             /\ ret' = "int" => retn' = 0]_vars

\* C14, the state after a call that found pending tasks and no free slot and
\* returned 0.
C14_Witness ==
    /\ cpc = "idle"
    /\ cop[1] = "start_all_downloads"
    /\ ret = "int" /\ retn = 0
    /\ pre[1] > 0
    /\ pre[2] = max_concurrent_downloads

\* C15: pause_download of a task of the registry that is downloading sets
\* its status to paused and emits a paused event; resume_download of a task
\* of the registry that is paused makes it pending; for any other status or
\* an unknown id either call changes nothing and emits no event.
C15_PauseResumeOnlyWhenLegal ==
    [][\A t \in TaskIds :
          /\ (calls' = calls - 1 /\ cop' = <<"pause_download", t>>)
                => IF InRegistry(t) /\ status[t] = "downloading"
                   THEN /\ status' = [status EXCEPT ![t] = "paused"]
                        /\ log' = Append(log, <<t, "paused", "", 1>>)
                   ELSE UNCHANGED <<taskv, svcv, workv, disk, log>>
          /\ (calls' = calls - 1 /\ cop' = <<"resume_download", t>>)
                => IF InRegistry(t) /\ status[t] = "paused"
                   THEN status'[t] = "pending"
                   ELSE UNCHANGED <<taskv, svcv, workv, disk, log>>]_vars

\* C15, a state right after pause_download was called for a pending task of
\* the registry: the task is pending as before.
C15_Witness ==
    /\ cpc = "idle"
    /\ cop[1] = "pause_download"
    /\ InRegistry(cop[2])
    /\ status[cop[2]] = "pending"
    /\ \A i \in 1..Len(log) : log[i][2] # "paused"

\* No other task that was submitted has the output path of task t.
OwnPath(t) == \A u \in TaskIds \ {t} : Dest(u) = Dest(t) => u \in pool

\* At most one worker thread has ever been dispatched for task t.
DispatchedOnce(t) == Cardinality({w \in Workers : wpc[w] # "none" /\ wtask[w] = t}) <= 1

\* C16: while a task is paused no step marks it completed or failed and its
\* file does not change size; and once the worker that was running has
\* ended, the partial file exists and its size is the task's
\* downloaded_bytes (checked for tasks that had a single worker).
C16_PausedWorkerStops ==
    /\ [][\A t \in TaskIds :
             (/\ InRegistry(t) /\ InRegistry(t)'
              /\ OwnPath(t) /\ DispatchedOnce(t)
              /\ status[t] = "paused")
                 => /\ status'[t] \notin {"completed", "failed"}
                    /\ status'[t] = "paused"
                          => FileSize(Dest(t))' = FileSize(Dest(t))]_vars
    /\ [](\A t \in Registry :
             (/\ OwnPath(t) /\ DispatchedOnce(t)
              /\ status[t] = "paused"
              /\ \A w \in Workers : Alive(w) => wtask[w] # t)
                 => /\ disk[Dest(t)] # NoFile
                    /\ Len(disk[Dest(t)]) = downloaded_bytes[t])

\* C17: resume_download of a paused task called while active_downloads is at
\* the limit makes the task pending and returns without dispatching a
\* worker; the counter, the thread table and the threads are as before.
C17_ResumeIsGated ==
    [][\A t \in TaskIds :
          (/\ calls' = calls - 1
           /\ cop' = <<"resume_download", t>>
           /\ InRegistry(t) /\ status[t] = "paused"
           /\ active_downloads >= max_concurrent_downloads)
              => /\ status' = [status EXCEPT ![t] = "pending"]
                 /\ cpc' = "idle"
                 /\ UNCHANGED <<svcv, workv, disk>>]_vars

\* C17, a state where its case has happened: the last call was a
\* resume_download that found no free slot, and a finishing worker is now
\* starting that task through _start_next_pending_download.
C17_Witness ==
    /\ cop[1] = "resume_download"
    /\ ret = "None"
    /\ pre[2] >= max_concurrent_downloads
    /\ \E w \in Workers : wpc[w] = "sd_read" /\ wtarget[w] = cop[2]

\* C18: cancel_download of a completed task removes the registry entry and
\* leaves its output file on disk; for a task in any other status the file
\* is deleted and the entry removed.
C18_CancelKeepsCompletedFile ==
    [][\A t \in TaskIds :
          (calls' = calls - 1 /\ cop' = <<"cancel_download", t>> /\ InRegistry(t))
              => /\ ~InRegistry(t)'
                 /\ IF status[t] = "completed"
                    THEN disk'[Dest(t)] = disk[Dest(t)]
                    ELSE disk'[Dest(t)] = NoFile]_vars

\* C19: a task leaves the registry only in a step of cancel_download for it
\* or of clear_completed_downloads; clear_completed_downloads removes
\* exactly the completed and failed tasks, none of which has a running
\* worker, changes no field of any task and deletes no file.
C19_RemovalOnlyByCancelOrClear ==
    [][/\ \A t \in TaskIds :
             (InRegistry(t) /\ ~InRegistry(t)')
                 => /\ calls' = calls - 1
                    /\ \/ cop' = <<"cancel_download", t>>
                       \/ /\ cop'[1] = "clear_completed_downloads"
                          /\ status[t] \in {"completed", "failed"}
                          /\ \A w \in Workers : Running(w) => wtask[w] # t
       /\ (calls' = calls - 1 /\ cop'[1] = "clear_completed_downloads")
             => /\ Registry' = {t \in Registry : status[t] \notin {"completed", "failed"}}
                /\ UNCHANGED <<taskv, disk>>]_vars

\* C20: add_download returns an id that no task of the registry has, and
\* the registry has one entry more after it: no task is replaced.
C20_UniqueIds ==
    [][(calls' = calls - 1 /\ cop'[1] = "add_download")
          => /\ ~InRegistry(retn')
             /\ Len(downloads') = Len(downloads) + 1]_vars

\* The caller submits files by name and starts them, and submits again only
\* when no worker thread is running: a task object that add_download
\* replaces is then referenced by the registry alone.
InitResubmit ==
    /\ InitService(<<>>)
    /\ max_concurrent_downloads = MaxConcurrent
    /\ NoKeyFiles
    /\ Plain
    /\ logging = TRUE
    /\ tracing = TRUE
    /\ calls = SubmitCalls
    /\ wcap = SpecWorkers

NextResubmit ==
    \/ (\A w \in Workers : ~Alive(w)) /\ \E f \in Files : add_download_at(f)
    \/ Tick
    \/ \E t \in TaskIds : start_download(t)
    \/ StartCallSteps
    \/ \E w \in Workers : WorkerStep(w)

SpecResubmit == InitResubmit /\ [][NextResubmit]_vars

\* C21: a call of add_download leaves the new task pending with
\* downloaded_bytes 0 and total_bytes 0, changes neither active_downloads
\* nor the thread table nor any worker nor any field of a task that was in
\* the registry, and emits one added event, for the new task.
C21_SubmitDoesNotStart ==
    [][(calls' = calls - 1 /\ cop'[1] = "add_download")
          => /\ \E i \in 1..Len(downloads') : downloads'[i] = retn'
             /\ status'[retn'] = "pending"
             /\ downloaded_bytes'[retn'] = 0
             /\ total_bytes'[retn'] = 0
             /\ UNCHANGED <<active_downloads, download_threads, workv, disk>>
             /\ \A u \in Registry :
                   /\ InRegistry(u)'
                   /\ status'[u] = status[u]
                   /\ downloaded_bytes'[u] = downloaded_bytes[u]
                   /\ total_bytes'[u] = total_bytes[u]
                   /\ error_message'[u] = error_message[u]
             /\ logging => log' = Append(log, <<retn', "added", "", 1>>)]_vars

\* C22: a step in which a request or a read of the stream raises leaves the
\* task failed with the text of the exception as its error_message and
\* emits a failed event; and no worker thread is started for a task whose
\* status is failed.
C22_FailedIsFinal ==
    [][/\ \A w \in Workers :
             (wpc[w] \in {"request", "loop"} /\ wpc'[w] = "fin_read"
              /\ error_message'[wtask[w]] # error_message[wtask[w]])
                 => /\ status'[wtask[w]] = "failed"
                    /\ error_message'[wtask[w]] \in {"exception", "Download incomplete"}
       /\ nw' = nw + 1 => status[wtask'[nw']] # "failed"]_vars

\* C23: no worker thread ends by an exception that nothing catches: every
\* worker that ends has run its finally block.
C23_NoWorkerCrash == \A w \in Workers : wpc[w] # "crashed"

\* Two tasks submitted and one slot; some status and progress listeners
\* are registered, the caller registers others, the callback of listener 1
\* raises on every event, and the caller starts, pauses and cancels tasks.
InitListeners ==
    /\ InitService(<<1, 3>>)
    /\ max_concurrent_downloads = 1
    /\ NoKeyFiles
    /\ status_callbacks \in {<<>>, <<1>>}
    /\ progress_callbacks \in {<<>>, <<1>>}
    /\ raising = {1}
    /\ outdir = {}
    /\ uppercase = {}
    /\ plainfiles = {}
    /\ Launched
    /\ logging = TRUE
    /\ tracing = TRUE
    /\ calls = ListenerCalls
    /\ wcap = SpecWorkers

NextListeners ==
    \/ \E l \in Listeners : add_status_callback(l) \/ add_progress_callback(l)
    \/ \E t \in TaskIds : \/ start_download(t)
                           \/ pause_download(t)
                           \/ cancel_download(t)
    \/ StartCallSteps
    \/ \E w \in Workers : WorkerStep(w)

SpecListeners == InitListeners /\ [][NextListeners]_vars

\* s is made of the calls of whole notifications: for each event, one call
\* of every callback registered on its bus, in the order of registration.
RECURSIVE Notifications(_)
Notifications(s) ==
    \/ s = <<>>
    \/ LET cbs == IF s[1][2] = "progress" THEN progress_callbacks ELSE status_callbacks
       IN /\ cbs # <<>>
          /\ Len(s) >= Len(cbs)
          /\ \A i \in 1..Len(cbs) : s[i] = <<s[1][1], s[1][2], s[1][3], cbs[i]>>
          /\ Notifications(SubSeq(s, Len(cbs) + 1, Len(s)))

\* C24: whichever listeners raise, the calls that a step adds to the log are
\* whole notifications (every registered listener of the bus is called, in
\* registration order), and the operation that emits goes on: the step
\* that emits paused leaves the task paused, the step that emits failed
\* leaves it failed, the step that emits started leaves it downloading, and
\* cancel_download removes the task.
C24_ListenerIsolation ==
    [][/\ Len(log') >= Len(log)
       /\ SubSeq(log', 1, Len(log)) = log
       /\ Notifications(SubSeq(log', Len(log) + 1, Len(log')))
       /\ \A i \in (Len(log) + 1)..Len(log') :
             /\ log'[i][2] = "paused" => status'[log'[i][1]] = "paused"
             /\ log'[i][2] = "failed" => status'[log'[i][1]] = "failed"
             /\ log'[i][2] = "started" => status'[log'[i][1]] = "downloading"
             /\ log'[i][2] = "cancelled" =>
                   \A j \in 1..Len(downloads') : downloads'[j] # log'[i][1]]_vars

\* C24, a state where its case has happened: the listener registered first
\* raises, and the listener registered after it got the events of both
\* buses after the first one had raised on them.
C24_Witness ==
    /\ Len(status_callbacks) = 2 /\ status_callbacks[1] \in raising
    /\ Len(progress_callbacks) = 2 /\ progress_callbacks[1] \in raising
    /\ \E i \in 1..(Len(log) - 1) :
          /\ log[i][2] = "progress" /\ log[i][4] = progress_callbacks[1]
          /\ log[i + 1] = <<log[i][1], "progress", log[i][3], progress_callbacks[2]>>
    /\ \E i \in 1..(Len(log) - 1) :
          /\ log[i][2] = "started" /\ log[i][4] = status_callbacks[1]
          /\ log[i + 1] = <<log[i][1], "started", log[i][3], status_callbacks[2]>>

\* Two .nsz tasks submitted and one slot, with the key files that the user
\* may have: one at the well-known location or none, in the working
\* directory a keys.txt that is no key file or none and a prod.keys or
\* none, and key material in a directory of the user.  The caller starts tasks and sets the keys path
\* while the workers download and decompress.
InitNsz ==
    /\ InitService(<<1, 3>>)
    /\ max_concurrent_downloads = 1
    /\ keyfiles \in {[p \in KeyPaths |->
                        IF p = SwitchKeys THEN a
                        ELSE IF p = "./keys.txt" THEN b
                        ELSE IF p = "./prod.keys" THEN c
                        ELSE "keysB"] :
                           a \in {NoKeys, "keysA"}, b \in {NoKeys, "garbage"},
                           c \in {NoKeys, "keysA"}}
    /\ NSZService_init
    /\ Plain
    /\ logging = TRUE
    /\ tracing = TRUE
    /\ calls = NszCalls
    /\ wcap = SpecWorkers

NextNsz ==
    \/ \E t \in TaskIds : start_download(t)
    \/ StartCallSteps
    \/ \E p \in KeyPaths, dir \in BOOLEAN : set_keys_path(p, dir)
    \/ caller_keys_copy
    \/ \E w \in Workers : WorkerStep(w) \/ NszStep(w)

SpecNsz == InitNsz /\ [][NextNsz]_vars

\* C25: post-processing of an .nsz task goes on to the nsz library only when
\* keys_path names a file that passes _validate_keys_file; otherwise it ends
\* in the same step with a decompress_failed event and the status of the
\* task as it was.
C25_DecompressNeedsValidKeys ==
    [][\A w \in Workers :
          (/\ wpc[w] = "post" /\ wpc'[w] # "post"
           /\ InRegistry(wtask[w])
           /\ Suffix(Dest(wtask[w])) = "nsz"
           /\ ~(keys_path # "None" /\ validate_keys_file(keys_path)))
              => /\ wpc'[w] = "fin_read"
                 /\ \E i \in (Len(log) + 1)..Len(log') :
                       log'[i][1] = wtask[w] /\ log'[i][2] = "decompress_failed"
                 /\ status'[wtask[w]] = status[wtask[w]]]_vars

\* Two .nsz tasks with one output path, one slot, valid key material at
\* the well-known location; the destination directory may hold .nsp files
\* already and the file name may be written with an upper-case suffix.  The
\* caller starts and cancels tasks.
InitNsp ==
    /\ InitService(<<1, 3>>)
    /\ max_concurrent_downloads = 1
    /\ keyfiles = [p \in KeyPaths |-> IF p = SwitchKeys THEN "keysA" ELSE NoKeys]
    /\ NSZService_init
    /\ status_callbacks = <<1>>
    /\ progress_callbacks = <<>>
    /\ raising = {}
    /\ outdir \in SUBSET {NspFile(1), NspFile(0)}
    /\ uppercase \in SUBSET {1}
    /\ plainfiles = {}
    /\ Launched
    /\ logging = TRUE
    /\ tracing = TRUE
    /\ calls = NspCalls
    /\ wcap = SpecWorkers

NextNsp ==
    \/ \E t \in TaskIds : start_download(t) \/ cancel_download(t)
    \/ StartCallSteps
    \/ \E w \in Workers : WorkerStep(w) \/ worker_decompress(w)

SpecNsp == InitNsp /\ [][NextNsp]_vars

\* The step adds to the log an event of the given kind for task t.
Emits(t, kind) ==
    \E i \in (Len(log) + 1)..Len(log') : log'[i][1] = t /\ log'[i][2] = kind

\* C26: when the call of the nsz library has returned, decompressed is
\* emitted only if the destination directory holds the .nsp file named
\* after the source or an .nsp file that the call has written; and when the
\* call has written no .nsp file, decompress_failed is emitted.
C26_SuccessNeedsNsp ==
    [][\A w \in Workers :
          (wpc[w] = "decompress" /\ wpc'[w] = "fin_read")
              => /\ Emits(wtask[w], "decompressed")
                    => \/ NspFile(Dest(wtask[w])) \in outdir'
                       \/ \E a \in outdir' \ outdir : a[1] = "nsp"
                 /\ outdir' = outdir => Emits(wtask[w], "decompress_failed")]_vars

\* C27: post-processing of a .zip task of the registry leaves its status
\* as it is and either emits extracted, with all the entries of the archive
\* in the destination directory and the archive deleted, or emits
\* extract_failed, with error_message set and the archive as it was.
C27_ZipExtraction ==
    [][\A w \in Workers :
          (/\ wpc[w] = "post" /\ wpc'[w] # "post"
           /\ InRegistry(wtask[w])
           /\ Suffix(Dest(wtask[w])) = "zip")
              => /\ status'[wtask[w]] = status[wtask[w]]
                 /\ Emits(wtask[w], "completed")
                 /\ \/ /\ Emits(wtask[w], "extracted")
                       /\ ~Emits(wtask[w], "extract_failed")
                       /\ disk[Dest(wtask[w])] # NoFile
                       /\ Entries(Dest(wtask[w])) \in outdir'
                       /\ disk'[Dest(wtask[w])] = NoFile
                       /\ error_message'[wtask[w]] = error_message[wtask[w]]
                    \/ /\ Emits(wtask[w], "extract_failed")
                       /\ ~Emits(wtask[w], "extracted")
                       /\ error_message'[wtask[w]] = "ZIP extraction failed"
                       /\ disk'[Dest(wtask[w])] = disk[Dest(wtask[w])]]_vars

\* C27, a state where its case has happened: extraction of the archive of
\* task 2 has raised; the listeners got extract_failed and then completed,
\* the task is completed with the message and the archive is on disk.
C27_Witness ==
    /\ Suffix(Dest(2)) = "zip"
    /\ status[2] = "completed"
    /\ error_message[2] = "ZIP extraction failed"
    /\ disk[Dest(2)] = FullContent
    /\ \E j \in 1..Len(log) : \E i \in 1..(j - 1) :
          /\ log[i][1] = 2 /\ log[i][2] = "extract_failed"
          /\ log[j][1] = 2 /\ log[j][2] = "completed"

\* C28: no step changes the content of a file that exists at
\* ~/.switch/prod.keys.
C28_KeysNotOverwritten ==
    [][keyfiles[SwitchKeys] # NoKeys
          => keyfiles'[SwitchKeys] = keyfiles[SwitchKeys]]_vars

\* C29: no step of a worker in the post-processing of an .nsz task, from
\* the decompressing event to the report of the result, deletes or changes
\* a file at an output path.
C29_SourceKept ==
    [][\A w \in Workers :
          (/\ wpc[w] \in {"post", "keys_copy", "decompress"}
           /\ wpc'[w] # wpc[w]
           /\ Suffix(Dest(wtask[w])) = "nsz")
              => disk' = disk]_vars

\* C29, a state where its case has happened: the .nsz task 1 has been
\* decompressed, its worker has ended and the file is on disk as downloaded.
C29_Witness ==
    /\ Suffix(Dest(1)) = "nsz"
    /\ \E i \in 1..Len(log) : log[i][1] = 1 /\ log[i][2] = "decompressed"
    /\ \E w \in Workers : wtask[w] = 1 /\ wpc[w] = "done"
    /\ disk[Dest(1)] = FullContent

\* SpecNsp with the scheduling of the threads: every worker thread that can
\* take a step of _download_worker eventually takes one.  The return of
\* the call of the nsz library (line 191 of nsz_service.py) is a step of
\* the library, which nothing obliges to happen.
SpecNspFair == SpecNsp /\ \A w \in Workers : WF_vars(WorkerStep(w))

\* C30: a worker that is inside the call of the nsz library eventually
\* has released its slot, whether or not the call returns.
C30_DecompressBounded ==
    \A w \in Workers : (wpc[w] = "decompress") ~> (Decrements(w) = 1)

\* C31: in every state the counter of admitted downloads lies between 0
\* and max_concurrent_downloads.
C31_ActiveWithinBounds ==
    /\ active_downloads >= 0
    /\ active_downloads <= max_concurrent_downloads

\* C32: the step that computes the resume position takes the size of the
\* file at the destination path, 0 when there is none; the step that
\* sends the request and opens the file sends a Range header naming the
\* offset exactly when the offset is positive, keeps the content of the
\* file exactly when the offset is positive and leaves an empty file
\* otherwise, sets downloaded_bytes to the offset, and sets total_bytes to
\* Content-Length + offset or, without the header, to 0.
C32_TransferSetup ==
    [][\A w \in Workers :
          /\ (wpc[w] = "prepare" /\ wpc'[w] = "request")
                => rpos'[w] = (IF disk[Dest(wtask[w])] = NoFile THEN 0
                               ELSE Len(disk[Dest(wtask[w])]))
          /\ (wpc[w] = "request" /\ wpc'[w] = "loop")
                => /\ Headers(w) = (IF rpos[w] > 0 THEN {rpos[w]} ELSE {})
                   /\ spos'[w] = rpos[w]
                   /\ disk'[Dest(wtask[w])] =
                         (IF rpos[w] > 0 /\ disk[Dest(wtask[w])] # NoFile
                          THEN disk[Dest(wtask[w])] ELSE <<>>)
                   /\ downloaded_bytes'[wtask[w]] = rpos[w]
                   /\ total_bytes'[wtask[w]] \in {0, (ContentLen - spos'[w]) + rpos[w]}]_vars

\* A worker has resumed a transfer at a positive offset, kept the chunks
\* already in the file, and the task's counters start from that offset.
C32_Witness ==
    \E w \in Workers :
        /\ wpc[w] = "loop"
        /\ rpos[w] > 0
        /\ spos[w] = rpos[w]
        /\ disk[Dest(wtask[w])] # NoFile
        /\ Len(disk[Dest(wtask[w])]) = rpos[w]
        /\ downloaded_bytes[wtask[w]] = rpos[w]
        /\ total_bytes[wtask[w]] = ContentLen

\* C33: a step that marks a downloading task completed is taken only when
\* total_bytes is 0 or downloaded_bytes has reached total_bytes; a step
\* that fails it with "Download incomplete" only when it has not; and no
\* task is in status completed with downloaded_bytes < total_bytes and
\* total_bytes > 0.
C33_CompletionRule ==
    [][\A t \in TaskIds :
          /\ (status[t] = "downloading" /\ status'[t] = "completed") => Complete(t)
          /\ (status[t] = "downloading" /\ status'[t] = "failed"
                 /\ error_message'[t] = "Download incomplete") => ~Complete(t)
          /\ status'[t] = "completed"
                => (total_bytes'[t] = 0 \/ downloaded_bytes'[t] >= total_bytes'[t])]_vars

\* C34: a worker is in post-processing only while its task is completed
\* and no worker of the task has the file open; no listener receives a
\* post-processing event of a task after a completed event of that task;
\* and a task whose workers have all ended in status failed or paused has
\* had no post-processing event.
C34_CompletionOrdering ==
    LET PostKinds == {"extracted", "extract_failed", "decompressing", "decompressed",
                      "decompress_failed"}
    IN
        /\ \A w \in Workers : wpc[w] \in {"post", "keys_copy", "decompress"} =>
              /\ InRegistry(wtask[w]) => status[wtask[w]] = "completed"
              /\ \A v \in Workers : wtask[v] = wtask[w] => ~linked[v]
        /\ \A j \in 1..Len(log) : \A i \in 1..(j - 1) :
              (log[i][1] = log[j][1] /\ log[i][4] = log[j][4] /\ log[i][2] = "completed")
                  => log[j][2] \notin PostKinds
        /\ \A t \in Registry :
              (status[t] \in {"failed", "paused"} /\ \A w \in Workers : Alive(w) => wtask[w] # t)
                  => \A i \in 1..Len(log) : log[i][1] = t => log[i][2] \notin PostKinds

\* The service with three tasks submitted and one slot, no key material, the
\* status events recorded; file names with any of the three suffix classes
\* and in either case.  The caller starts tasks and clears the finished ones.
InitSuffix ==
    /\ InitService(<<1, 2, 3>>)
    /\ max_concurrent_downloads = 1
    /\ NoKeyFiles
    /\ status_callbacks = <<1>>
    /\ progress_callbacks = <<>>
    /\ raising = {}
    /\ outdir = {}
    /\ uppercase \in SUBSET Files
    /\ plainfiles \in SUBSET Files
    /\ Launched
    /\ logging = TRUE
    /\ tracing = FALSE
    /\ calls = SuffixCalls
    /\ wcap = SpecWorkers

NextSuffix ==
    \/ \E t \in TaskIds : start_download(t)
    \/ clear_completed_downloads
    \/ StartCallSteps
    \/ \E w \in Workers : WorkerStep(w)

SpecSuffix == InitSuffix /\ [][NextSuffix]_vars

\* C35: the step of a worker through _handle_post_download emits extracted
\* or extract_failed for a .zip name and decompressing for a .nsz name, in
\* lower or upper case; for any other name it emits nothing but the
\* worker's completed event, sets no error_message and leaves the files of
\* the destination directory as they are.
C35_DispatchBySuffix ==
    [][\A w \in Workers : (wpc[w] = "post" /\ wpc'[w] # "post") =>
          /\ Suffix(Dest(wtask[w])) = "zip"
                => Emits(wtask[w], "extracted") \/ Emits(wtask[w], "extract_failed")
          /\ Suffix(Dest(wtask[w])) = "nsz" => Emits(wtask[w], "decompressing")
          /\ Suffix(Dest(wtask[w])) = "rom"
                => /\ \A i \in (Len(log) + 1)..Len(log') : log'[i][2] = "completed"
                   /\ error_message' = error_message
                   /\ disk' = disk
                   /\ outdir' = outdir]_vars

\* C36: when the caller is in no call and every worker thread either has
\* ended or is before its finally block, active_downloads is the number of
\* worker threads that have not ended; it is 0 when all have ended.
C36_NoSlotLeak ==
    (/\ cpc = "idle"
     /\ \A w \in Workers : Running(w) \/ ~Alive(w))
        => active_downloads = Cardinality({w \in Workers : Running(w)})

\* C37: in the calls a listener receives, no event of a task comes after
\* the cancelled event of that task.
C37_SilentAfterCancel ==
    \A j \in 1..Len(log) : \A i \in 1..(j - 1) :
        (log[i][2] = "cancelled" /\ log[i][4] = log[j][4]) => log[j][1] # log[i][1]

\* The service with key material in place and two .nsz tasks submitted that
\* may run at the same time; the caller starts them.
InitCwd ==
    /\ InitService(<<1, 3>>)
    /\ max_concurrent_downloads = 2
    /\ keyfiles = [p \in KeyPaths |-> IF p = SwitchKeys THEN "keysA" ELSE NoKeys]
    /\ NSZService_init
    /\ Plain
    /\ logging = FALSE
    /\ tracing = FALSE
    /\ calls = CwdCalls
    /\ wcap = SpecWorkers

NextCwd ==
    \/ \E t \in TaskIds : start_download(t)
    \/ StartCallSteps
    \/ \E w \in Workers : WorkerStep(w) \/ worker_decompress(w)

SpecCwd == InitCwd /\ [][NextCwd]_vars

\* C38: whenever no worker is inside decompress_nsz, the working directory
\* of the process is the one it had before the first call.
C38_CwdRestored ==
    (\A w \in Workers : wpc[w] \notin {"keys_copy", "decompress"}) => cwd = StartDir

\* ---------------------------------------------------------------- key file validation
\* The text of a file is the sequence of its characters.  The characters
\* of the model: the hex digits "0" and "a", the letters "x", "g" and "k",
\* the signs, the underscore, "=", the space and the newline.
HexDigits == {"0", "a"}

\* nsz_service.py line 85: the length of a 128-bit key in hex digits.
KeyLen == 32

\* open(keys_path, 'r') raises: the file cannot be read.
Unreadable == <<"unreadable">>

\* str.lstrip() and str.rstrip(): the space and the newline are whitespace.
RECURSIVE LStrip(_)
LStrip(s) ==
    IF s = <<>> THEN s
    ELSE IF Head(s) \in {" ", "\n"} THEN LStrip(Tail(s)) ELSE s

RECURSIVE RStrip(_)
RStrip(s) ==
    IF s = <<>> THEN s
    ELSE IF s[Len(s)] \in {" ", "\n"} THEN RStrip(SubSeq(s, 1, Len(s) - 1)) ELSE s

\* str.strip()
Strip(s) == RStrip(LStrip(s))

\* str.find(c) + 1: the position of the first c in s, 0 when there is none.
Find(s, c) ==
    IF \E i \in 1..Len(s) : s[i] = c
    THEN CHOOSE i \in 1..Len(s) : s[i] = c /\ \A j \in 1..(i - 1) : s[j] # c
    ELSE 0

\* str.split('\n')
RECURSIVE Split(_)
Split(s) ==
    IF Find(s, "\n") = 0 THEN <<s>>
    ELSE <<SubSeq(s, 1, Find(s, "\n") - 1)>> \o Split(SubSeq(s, Find(s, "\n") + 1, Len(s)))

\* The digits of int(text, 16) after the sign and the prefix: hex digits
\* with single underscores between them.
Digits16(s) ==
    /\ s # <<>>
    /\ \A i \in 1..Len(s) : s[i] \in HexDigits \cup {"_"}
    /\ s[1] # "_"
    /\ s[Len(s)] # "_"
    /\ \A i \in 1..(Len(s) - 1) : ~(s[i] = "_" /\ s[i + 1] = "_")

\* nsz_service.py line 87: int(key_value, 16) does not raise ValueError.
\* After the whitespace comes an optional sign, then an optional prefix 0x
\* which one underscore may follow, then the digits.
IsInt16(s) ==
    LET stripped == Strip(s)
        unsigned == IF stripped # <<>> /\ Head(stripped) \in {"+", "-"}
                    THEN Tail(stripped) ELSE stripped
        digits == IF Len(unsigned) >= 2 /\ unsigned[1] = "0" /\ unsigned[2] = "x"
                  THEN (IF Len(unsigned) >= 3 /\ unsigned[3] = "_"
                        THEN SubSeq(unsigned, 4, Len(unsigned))
                        ELSE SubSeq(unsigned, 3, Len(unsigned)))
                  ELSE unsigned
    IN  Digits16(digits)

\* nsz_service.py line 84: key_name, key_value = line.split('=', 1).
KeyValue(line) == SubSeq(line, Find(line, "=") + 1, Len(line))

\* nsz_service.py lines 82-88 for one line of the file: it is counted.
ValidLine(raw) ==
    /\ Find(Strip(raw), "=") # 0
    /\ Len(Strip(raw)) > 10
    /\ Len(KeyValue(Strip(raw))) = KeyLen
    /\ IsInt16(KeyValue(Strip(raw)))

\* _validate_keys_file (nsz_service.py lines 73-95) on the text of a file.
validate_keys_text(text) ==
    /\ text # Unreadable
    /\ \E i \in 1..Len(Split(Strip(text))) : ValidLine(Split(Strip(text))[i])

\* The key files considered: one or two lines; a line is a name, "=" and
\* a value of KeyLen - 1, KeyLen or KeyLen + 1 characters, made of hex
\* digits with a sign, a prefix, underscores, spaces or another letter at
\* its beginning, in it or at its end.
Fill(k) == [i \in 1..k |-> "a"]

KeyLines ==
    {name \o <<"=">> \o h \o <<"0">> \o m \o Fill(n - Len(h) - Len(m) - Len(t) - 1) \o t :
        name \in {<<>>, <<"k">>},
        h \in {<<>>, <<"-">>, <<"+">>, <<"0", "x">>, <<" ">>, <<"_">>, <<"g">>},
        m \in {<<>>, <<"_">>, <<"_", "_">>, <<" ">>},
        t \in {<<>>, <<"_">>, <<" ">>},
        n \in (KeyLen - 1)..(KeyLen + 1)}
    \cup {<<"k", "=", "a">>, Fill(KeyLen)}

KeyTexts ==
    KeyLines
    \cup {<<"g", "\n">> \o line \o <<"\n">> : line \in KeyLines}
    \cup {Unreadable, <<>>}

\* A service and one key file that is given to _validate_keys_file.
InitKeys ==
    /\ InitService(<<>>)
    /\ max_concurrent_downloads = MaxConcurrent
    /\ NoKeyFiles
    /\ status_callbacks = <<1>>
    /\ progress_callbacks = <<>>
    /\ raising = {}
    /\ outdir = {}
    /\ uppercase = {}
    /\ plainfiles = {}
    /\ cwd = StartDir
    /\ original_cwd = [w \in Workers |-> StartDir]
    /\ keytext \in KeyTexts
    /\ valid = "none"
    /\ logging = FALSE
    /\ tracing = FALSE
    /\ calls = 1
    /\ wcap = 0

\* The call _validate_keys_file(keys_path) returns.
validate_keys_file_returns ==
    /\ valid = "none"
    /\ valid' = IF validate_keys_text(keytext) THEN "True" ELSE "False"
    /\ UNCHANGED <<taskv, svcv, workv, callv, pool, calls, wcap, obsv, disk, log, logging,
                   cancelled, interrupted, lsnv, keyfiles, outdir, uppercase, plainfiles,
                   cwdv, keytext>>

NextKeys == validate_keys_file_returns

SpecKeys == InitKeys /\ [][NextKeys]_vars

\* C39: _validate_keys_file returns True exactly when the file can be read
\* and one of its lines is a name, "=" and a value of exactly KeyLen
\* characters that are all hex digits; it returns False, and does not
\* raise, for a file that cannot be read.
C39_KeysValidation ==
    valid # "none" =>
        (valid = "True" <=>
            /\ keytext # Unreadable
            /\ \E i \in 1..Len(Split(Strip(keytext))) :
                  /\ Find(Strip(Split(Strip(keytext))[i]), "=") # 0
                  /\ Len(KeyValue(Strip(Split(Strip(keytext))[i]))) = KeyLen
                  /\ \A k \in 1..KeyLen :
                        KeyValue(Strip(Split(Strip(keytext))[i]))[k] \in HexDigits)

====
